---- MODULE Spec2Model ----
(***************************************************************************)
(* crusty-json: lexer (src/src/lexer.rs), parser (src/src/parser.rs) and   *)
(* their composition parse_json (src/src/utils.rs).                        *)
(*                                                                         *)
(* A character is a one-character string, a text is a sequence of          *)
(* characters.  The lexer is modelled one iteration of its outer           *)
(* `while let Some(c) = chars.next()` loop per action (the whole match     *)
(* arm, inner loops included).  The parser is modelled one loop section of *)
(* parse_object / parse_array per action, the recursion of the three       *)
(* mutually recursive functions being an explicit stack of frames that     *)
(* hold each call's locals.  `chars` and `iter` are the two Rust           *)
(* iterators, each represented by the number of items it has yielded.      *)
(***************************************************************************)
EXTENDS Integers, Sequences, FiniteSets, TLC

VARIABLES
    pc,       \* the function that is executing: "lexer", "parser",
              \* "parse_object", "parse_array", or "done"
    raw,      \* lexer(raw): the input text
    chars,    \* raw.chars(): number of characters already yielded
    vec,      \* the lexer's token vector
    lresult,  \* what lexer() returned
    tokens,   \* parser(tokens): the token vector, never written by parser
    iter,     \* tokens.iter(): number of tokens already yielded
    stack,    \* the active parse_object / parse_array calls, innermost last
    presult   \* what parser() returned

vars == <<pc, raw, chars, vec, lresult, tokens, iter, stack, presult>>

lexvars == <<raw, chars, vec, lresult>>

parsevars == <<tokens, iter, stack, presult>>

(***************************************************************************)
(* Bounds of the explored inputs.                                          *)
(***************************************************************************)
MaxLen == 3

MaxRun == 3

MaxTokens == 3

MaxItems == 2

(***************************************************************************)
(* Generic helpers.                                                        *)
(***************************************************************************)
SeqsUpTo(S, n) == UNION {[1..k -> S] : k \in 0..n}

Last(s) == s[Len(s)]

Quote == "\""

Backslash == "\\"

(***************************************************************************)
(* lexer.rs: tokens and errors.                                            *)
(***************************************************************************)
JsonToken(type, text) == [type |-> type, text |-> text]

Punct(type) == JsonToken(type, <<>>)

\* Option<JsonToken>::None
NoToken == JsonToken("None", <<>>)

JsonTokenError(kind, c) == [kind |-> kind, char |-> c]

NotReturned == [tag |-> "None"]

LexOk(v) == [tag |-> "Ok", tokens |-> v]

LexErr(e) == [tag |-> "Err", error |-> e]

Digits == {"0", "1", "2", "3", "4", "5", "6", "7", "8", "9"}

is_number_char(c) == c \in {"-", "."} \cup Digits

check_end_of_token_value_any(c) ==
    IF c \in {",", "}", "]", ":"} THEN Punct("Comma") ELSE NoToken

check_end_of_token_value(c) ==
    CASE c = "," -> Punct("Comma")
      [] c = "}" -> Punct("CloseCurlyBracket")
      [] c = "]" -> Punct("CloseSquareBracket")
      [] OTHER -> NoToken

StructuralChars == {"{", "}", "[", "]", ":", ","}

StructuralToken(c) ==
    CASE c = "{" -> Punct("OpenCurlyBracket")
      [] c = "}" -> Punct("CloseCurlyBracket")
      [] c = "[" -> Punct("OpenSquareBracket")
      [] c = "]" -> Punct("CloseSquareBracket")
      [] c = ":" -> Punct("Colon")
      [] c = "," -> Punct("Comma")

\* The whitespace arm with the carriage return among its characters.
IgnoredCharsWithReturn == {" ", "\n", "\t", "\r"}

IgnoredChars == {" ", "\n", "\t"}

false_len == 5

true_len == 4

null_len == 4

\* The inner loop of the "\"" arm, from the character after the opening
\* quote: json_string and whether the closing quote was found.
RECURSIVE ScanStringEscaped(_, _)
ScanStringEscaped(json_string, i) ==
    IF i < Len(raw)
    THEN IF raw[i + 1] = Backslash /\ i + 1 < Len(raw)
         THEN ScanStringEscaped(json_string \o <<raw[i + 1], raw[i + 2]>>, i + 2)
         ELSE IF raw[i + 1] # Quote
         THEN ScanStringEscaped(Append(json_string, raw[i + 1]), i + 1)
         ELSE [done |-> TRUE, text |-> json_string, chars |-> i + 1]
    ELSE [done |-> FALSE, text |-> json_string, chars |-> i]

RECURSIVE ScanString(_, _)
ScanString(json_string, i) ==
    IF i < Len(raw)
    THEN IF raw[i + 1] # Quote
         THEN ScanString(Append(json_string, raw[i + 1]), i + 1)
         ELSE [done |-> TRUE, text |-> json_string, chars |-> i + 1]
    ELSE [done |-> FALSE, text |-> json_string, chars |-> i]

\* The loop of the 'f' / 't' / 'n' arms stopping at the first character
\* that cannot belong to a literal.
RECURSIVE CaptureLettersChecked(_, _, _, _)
CaptureLettersChecked(json, i, letter_count, len) ==
    IF letter_count < len /\ i < Len(raw)
          /\ raw[i + 1] \notin StructuralChars \cup IgnoredChars \cup {Quote}
    THEN CaptureLettersChecked(Append(json, raw[i + 1]), i + 1, letter_count + 1, len)
    ELSE [text |-> json, chars |-> i]

\* The inner loop of the 'f' / 't' / 'n' arms: up to len - 1 further
\* characters, whatever they are.
RECURSIVE CaptureLetters(_, _, _, _)
CaptureLetters(json, i, letter_count, len) ==
    IF letter_count < len /\ i < Len(raw)
    THEN CaptureLetters(Append(json, raw[i + 1]), i + 1, letter_count + 1, len)
    ELSE [text |-> json, chars |-> i]

\* The inner loop of the number arm, with the end of the input treated as
\* one more character that cannot end a number.
RECURSIVE ScanNumberStrict(_, _)
ScanNumberStrict(json_number, i) ==
    IF i < Len(raw)
    THEN LET num_c == raw[i + 1] IN
         IF is_number_char(num_c)
         THEN ScanNumberStrict(Append(json_number, num_c), i + 1)
         ELSE IF check_end_of_token_value(num_c) # NoToken
         THEN [status |-> "end", text |-> json_number,
               end_token |-> check_end_of_token_value(num_c),
               c |-> num_c, chars |-> i + 1]
         ELSE [status |-> "invalid", text |-> json_number, end_token |-> NoToken,
               c |-> num_c, chars |-> i + 1]
    ELSE [status |-> "invalid", text |-> json_number, end_token |-> NoToken,
          c |-> "", chars |-> i]

\* The inner loop of the number arm.
RECURSIVE ScanNumber(_, _)
ScanNumber(json_number, i) ==
    IF i < Len(raw)
    THEN LET num_c == raw[i + 1] IN
         IF is_number_char(num_c)
         THEN ScanNumber(Append(json_number, num_c), i + 1)
         ELSE IF check_end_of_token_value(num_c) # NoToken
         THEN [status |-> "end", text |-> json_number,
               end_token |-> check_end_of_token_value(num_c),
               c |-> num_c, chars |-> i + 1]
         ELSE [status |-> "invalid", text |-> json_number, end_token |-> NoToken,
               c |-> num_c, chars |-> i + 1]
    ELSE [status |-> "eof", text |-> json_number, end_token |-> NoToken,
          c |-> "", chars |-> i]

\* The tokens pushed by the number arm (lines 148-151).
NumberTokens(n) ==
    IF n.end_token # NoToken
    THEN <<JsonToken("Number", n.text), n.end_token>>
    ELSE <<JsonToken("Number", n.text)>>

AtChar == pc = "lexer" /\ chars < Len(raw)

cur_c == raw[chars + 1]

LexFail(e) ==
    /\ lresult' = LexErr(e)
    /\ pc' = "done"
    /\ UNCHANGED <<raw, vec, tokens, iter, stack, presult>>

LexPush(ts, n) ==
    /\ vec' = vec \o ts
    /\ chars' = n
    /\ UNCHANGED <<pc, raw, lresult, tokens, iter, stack, presult>>

LexStructural ==
    /\ AtChar
    /\ cur_c \in StructuralChars
    /\ LexPush(<<StructuralToken(cur_c)>>, chars + 1)

LexString ==
    /\ AtChar
    /\ cur_c = Quote
    /\ LET s == ScanString(<<>>, chars + 1) IN
       IF ~s.done
       THEN chars' = s.chars /\ LexFail(JsonTokenError("ExpectedEndOfString", ""))
       ELSE LexPush(<<JsonToken("String", s.text)>>, s.chars)

LexFalse ==
    /\ AtChar
    /\ cur_c = "f"
    /\ LET l == CaptureLetters(<<cur_c>>, chars + 1, 1, false_len) IN
       LexPush(<<JsonToken("Boolean", l.text)>>, l.chars)

LexTrue ==
    /\ AtChar
    /\ cur_c = "t"
    /\ LET l == CaptureLetters(<<cur_c>>, chars + 1, 1, true_len) IN
       LexPush(<<JsonToken("Boolean", l.text)>>, l.chars)

LexNull ==
    /\ AtChar
    /\ cur_c = "n"
    /\ LET l == CaptureLetters(<<cur_c>>, chars + 1, 1, null_len) IN
       LexPush(<<JsonToken("Null", l.text)>>, l.chars)

LexNumber ==
    /\ AtChar
    /\ is_number_char(cur_c)
    /\ LET n == ScanNumber(<<cur_c>>, chars + 1) IN
       IF n.status = "invalid"
       THEN chars' = n.chars /\ LexFail(JsonTokenError("InvalidToken", n.c))
       ELSE LexPush(NumberTokens(n), n.chars)

LexIgnore ==
    /\ AtChar
    /\ cur_c \in IgnoredChars
    /\ LexPush(<<>>, chars + 1)

LexInvalid ==
    /\ AtChar
    /\ cur_c \notin StructuralChars \cup IgnoredChars \cup {Quote, "f", "t", "n"}
    /\ ~is_number_char(cur_c)
    /\ chars' = chars + 1
    /\ LexFail(JsonTokenError("InvalidToken", cur_c))

\* lexer.rs:162 `return Ok(vec)` and utils.rs:7-8: parse_json hands the
\* lexer's tokens to parser().
LexReturn ==
    /\ pc = "lexer"
    /\ chars = Len(raw)
    /\ lresult' = LexOk(vec)
    /\ tokens' = vec
    /\ pc' = "parser"
    /\ UNCHANGED <<raw, chars, vec, iter, stack, presult>>

lexer ==
    \/ LexStructural
    \/ LexString
    \/ LexFalse
    \/ LexTrue
    \/ LexNull
    \/ LexNumber
    \/ LexIgnore
    \/ LexInvalid
    \/ LexReturn

(***************************************************************************)
(* parser.rs: values, errors, parse_value.                                 *)
(***************************************************************************)
VString(text) == [type |-> "String", text |-> text]

VNumber(num) == [type |-> "Number", num |-> num]

VBoolean(b) == [type |-> "Boolean", b |-> b]

VNull == [type |-> "Null"]

VArray(arr) == [type |-> "Array", items |-> arr]

VObject(obj) == [type |-> "Object", map |-> obj]

JsonParseError(kind, token, text) == [kind |-> kind, token |-> token, text |-> text]

ParseOk(v) == [tag |-> "Ok", value |-> v]

ParseErr(e) == [tag |-> "Err", error |-> e]

\* HashMap::new()
EmptyMap == [k \in {} |-> VNull]

\* HashMap::insert keeping the entry already there.
insert_keep_first(obj, key, value) ==
    [k \in DOMAIN obj \cup {key} |-> IF k \in DOMAIN obj THEN obj[k] ELSE value]

\* HashMap::insert: a later value replaces the earlier one under the key.
insert(obj, key, value) ==
    [k \in DOMAIN obj \cup {key} |-> IF k = key THEN value ELSE obj[k]]

DigitValue(d) ==
    CASE d = "0" -> 0 [] d = "1" -> 1 [] d = "2" -> 2 [] d = "3" -> 3
      [] d = "4" -> 4 [] d = "5" -> 5 [] d = "6" -> 6 [] d = "7" -> 7
      [] d = "8" -> 8 [] d = "9" -> 9

\* Number of leading decimal digits of s from position i + 1 on.
RECURSIVE DigitRun(_, _)
DigitRun(s, i) ==
    IF i < Len(s) /\ s[i + 1] \in Digits THEN 1 + DigitRun(s, i + 1) ELSE 0

RECURSIVE DecimalValue(_)
DecimalValue(ds) ==
    IF ds = <<>> THEN 0
    ELSE 10 * DecimalValue(SubSeq(ds, 1, Len(ds) - 1)) + DigitValue(Last(ds))

\* mant * 10^exp without trailing zeros in mant.
RECURSIVE Normalized(_, _)
Normalized(mant, exp) ==
    IF mant = 0 THEN [mant |-> 0, exp |-> 0]
    ELSE IF mant % 10 = 0 THEN Normalized(mant \div 10, exp + 1)
    ELSE [mant |-> mant, exp |-> exp]

\* str::parse::<f64> accepting any text made of the lexer's number class.
parse_f64_lenient(s) ==
    LET ds == SelectSeq(s, LAMBDA x : x \in Digits) IN
    [ok |-> TRUE, neg |-> FALSE, mant |-> DecimalValue(ds), exp |-> 0]

\* str::parse::<f64> on a text made of the characters `+ - . 0-9`: an
\* optional sign, digits, an optional point, digits, at least one digit in
\* all, and nothing after them.  The value is the decimal the text denotes
\* (sign, mantissa, power of ten), which identifies the f64 for the short
\* texts explored here.  Exponents and the inf / nan spellings lie outside
\* the lexer's number class and are not modelled.
parse_f64(s) ==
    LET signed == s # <<>> /\ s[1] \in {"-", "+"}
        start == IF signed THEN 1 ELSE 0
        int_n == DigitRun(s, start)
        point == start + int_n < Len(s) /\ s[start + int_n + 1] = "."
        frac_n == IF point THEN DigitRun(s, start + int_n + 1) ELSE 0
        stop == start + int_n + (IF point THEN 1 + frac_n ELSE 0)
        ds == SubSeq(s, start + 1, start + int_n)
              \o SubSeq(s, start + int_n + 2, start + int_n + 1 + frac_n)
        n == Normalized(DecimalValue(ds), 0 - frac_n)
    IN  IF int_n + frac_n > 0 /\ stop = Len(s)
        THEN [ok |-> TRUE, neg |-> signed /\ s[1] = "-", mant |-> n.mant, exp |-> n.exp]
        ELSE [ok |-> FALSE, neg |-> FALSE, mant |-> 0, exp |-> 0]

\* parse_value's match on a Boolean token, told apart by the first letter.
parse_boolean_by_prefix(json_boolean) ==
    IF json_boolean # <<>> /\ json_boolean[1] = "t" THEN ParseOk(VBoolean(TRUE))
    ELSE IF json_boolean # <<>> /\ json_boolean[1] = "f" THEN ParseOk(VBoolean(FALSE))
    ELSE ParseErr(JsonParseError("InvalidBooleanValue", NoToken, json_boolean))

\* parser.rs:66-78
parse_boolean(json_boolean) ==
    IF json_boolean = <<"t", "r", "u", "e">> THEN ParseOk(VBoolean(TRUE))
    ELSE IF json_boolean = <<"f", "a", "l", "s", "e">> THEN ParseOk(VBoolean(FALSE))
    ELSE ParseErr(JsonParseError("InvalidBooleanValue", NoToken, json_boolean))

\* parser.rs:79-86
parse_null(json_null) ==
    IF json_null = <<"n", "u", "l", "l">> THEN ParseOk(VNull)
    ELSE ParseErr(JsonParseError("InvalidNullValue", NoToken, json_null))

\* parser.rs:58-65
parse_number(json_number) ==
    LET number == parse_f64(json_number) IN
    IF number.ok
    THEN ParseOk(VNumber([neg |-> number.neg, mant |-> number.mant, exp |-> number.exp]))
    ELSE ParseErr(JsonParseError("InvalidNumberValue", NoToken, json_number))

\* parse_value's match on value_token (lines 54-96).  A "Call" result
\* stands for the recursive call the arm makes.
parse_value(value_token) ==
    CASE value_token.type = "String" -> ParseOk(VString(value_token.text))
      [] value_token.type = "Number" -> parse_number(value_token.text)
      [] value_token.type = "Boolean" -> parse_boolean(value_token.text)
      [] value_token.type = "Null" -> parse_null(value_token.text)
      [] value_token.type = "OpenCurlyBracket" -> [tag |-> "Call", fn |-> "parse_object"]
      [] value_token.type = "OpenSquareBracket" -> [tag |-> "Call", fn |-> "parse_array"]
      [] OTHER -> ParseErr(JsonParseError("InvalidValue", value_token, <<>>))

(***************************************************************************)
(* parser.rs: the call stack.  A frame holds the locals of one             *)
(* parse_object / parse_array call and the loop section it is at:          *)
(*   "next"  the `while let Some(token) = iter.next()` at the loop head,   *)
(*   "colon" the `match iter.next()` after an object key,                  *)
(*   "value" the `parse_value(None, iter)` of an object entry,             *)
(*   "sep"   the `match iter.next()` after a value.                        *)
(***************************************************************************)
\* A fresh call whose comma_after_value starts from the caller's.
FrameSharedFlag(fn) ==
    [fn |-> fn, obj |-> EmptyMap, arr |-> <<>>, key |-> <<>>, at |-> "next",
     comma_after_value |-> stack # <<>> /\ Last(stack).comma_after_value]

Frame(fn) ==
    [fn |-> fn, obj |-> EmptyMap, arr |-> <<>>, key |-> <<>>, at |-> "next",
     comma_after_value |-> FALSE]

Top == Last(stack)

\* iter.next()
HasNext == iter < Len(tokens)

NextToken == tokens[iter + 1]

\* The caller's frame with the arrived value put in front of the array.
ReceiveInFront(frame, value) ==
    IF frame.fn = "parse_object"
    THEN [frame EXCEPT !.obj = insert(@, frame.key, value), !.at = "sep"]
    ELSE [frame EXCEPT !.arr = <<value>> \o @, !.at = "sep"]

\* The caller's frame once the value it waited for has arrived:
\* obj.insert(key, value) (line 136) or arr.push(value) (line 184).
Receive(frame, value) ==
    IF frame.fn = "parse_object"
    THEN [frame EXCEPT !.obj = insert(@, frame.key, value), !.at = "sep"]
    ELSE [frame EXCEPT !.arr = Append(@, value), !.at = "sep"]

\* The root call answering an inner call's error with the exhaustion
\* error of its own container.
ParseFailAtRoot(e) ==
    /\ presult' =
         ParseErr(IF Len(stack) > 1
                  THEN JsonParseError(IF stack[1].fn = "parse_object"
                                      THEN "ExpectedEndOfObject"
                                      ELSE "ExpectedEndOfArray", NoToken, <<>>)
                  ELSE e)
    /\ pc' = "done"
    /\ stack' = <<>>

\* The `?` of every caller: the first error is the result of parser().
ParseFail(e) ==
    /\ presult' = ParseErr(e)
    /\ pc' = "done"
    /\ stack' = <<>>

\* `return Ok(...)` of the innermost call: to parser() or to its caller.
Return(value) ==
    IF Len(stack) = 1
    THEN /\ presult' = ParseOk(value)
         /\ pc' = "done"
         /\ stack' = <<>>
    ELSE /\ presult' = presult
         /\ pc' = stack[Len(stack) - 1].fn
         /\ stack' = [SubSeq(stack, 1, Len(stack) - 1)
                        EXCEPT ![Len(stack) - 1] = Receive(@, value)]

Call(frames, fn) ==
    /\ stack' = Append(frames, Frame(fn))
    /\ pc' = fn
    /\ presult' = presult

\* The outcome of parse_value(value_token) for the innermost call.
Value(value_token) ==
    LET r == parse_value(value_token) IN
    CASE r.tag = "Ok" ->
           /\ stack' = [stack EXCEPT ![Len(stack)] = Receive(@, r.value)]
           /\ UNCHANGED <<pc, presult>>
      [] r.tag = "Err" -> ParseFail(r.error)
      [] r.tag = "Call" -> Call(stack, r.fn)

SetTop(frame) ==
    /\ stack' = [stack EXCEPT ![Len(stack)] = frame]
    /\ UNCHANGED <<pc, presult>>

\* parser(): the root accepted whatever value the first token starts.
parser_any_root(first_token) ==
    LET r == parse_value(first_token) IN
    CASE r.tag = "Call" -> Call(<<>>, r.fn)
      [] r.tag = "Ok" -> presult' = r /\ pc' = "done" /\ stack' = <<>>
      [] OTHER -> ParseFail(r.error)

\* parser(): the match on first_token (lines 219-231).
parser_root(first_token) ==
    CASE first_token.type = "OpenCurlyBracket" -> Call(<<>>, "parse_object")
      [] first_token.type = "OpenSquareBracket" -> Call(<<>>, "parse_array")
      [] OTHER -> ParseFail(JsonParseError("ExpectedObjectOrArrayAsRoot", first_token, <<>>))

parser ==
    /\ pc = "parser"
    /\ IF HasNext
       THEN iter' = iter + 1 /\ parser_root(NextToken)
       ELSE iter' = iter /\ ParseFail(JsonParseError("NoTokens", NoToken, <<>>))
    /\ UNCHANGED <<lexvars, tokens>>

\* parse_object, lines 105-120.
ObjectNext ==
    /\ pc = "parse_object" /\ Top.at = "next"
    /\ IF ~HasNext
       THEN iter' = iter /\ ParseFail(JsonParseError("ExpectedEndOfObject", NoToken, <<>>))
       ELSE /\ iter' = iter + 1
            /\ CASE NextToken.type = "CloseCurlyBracket" ->
                      IF Top.comma_after_value
                      THEN ParseFail(JsonParseError("TrailingComma", NoToken, <<>>))
                      ELSE Return(VObject(Top.obj))
                 [] NextToken.type = "String" ->
                      SetTop([Top EXCEPT !.key = NextToken.text, !.at = "colon"])
                 [] OTHER ->
                      ParseFail(JsonParseError("ExpectedObjectKey", NextToken, <<>>))
    /\ UNCHANGED <<lexvars, tokens>>

\* parse_object, lines 122-133.
ObjectColon ==
    /\ pc = "parse_object" /\ Top.at = "colon"
    /\ IF ~HasNext
       THEN iter' = iter /\ ParseFail(JsonParseError("ExpectedColonAfterKey", NoToken, <<>>))
       ELSE /\ iter' = iter + 1
            /\ IF NextToken.type = "Colon"
               THEN SetTop([Top EXCEPT !.at = "value"])
               ELSE ParseFail(JsonParseError("ExpectedColonAfterKey", NextToken, <<>>))
    /\ UNCHANGED <<lexvars, tokens>>

\* parse_object, lines 135-136, with parse_value(None, iter), lines 49-52.
ObjectValue ==
    /\ pc = "parse_object" /\ Top.at = "value"
    /\ IF ~HasNext
       THEN iter' = iter /\ ParseFail(JsonParseError("InvalidValue", NoToken, <<>>))
       ELSE iter' = iter + 1 /\ Value(NextToken)
    /\ UNCHANGED <<lexvars, tokens>>

\* parse_object, lines 138-157 and 160-161.
ObjectSep ==
    /\ pc = "parse_object" /\ Top.at = "sep"
    /\ IF ~HasNext
       THEN iter' = iter
            /\ ParseFail(JsonParseError("ExpectedCommaOrEndOfObject", NoToken, <<>>))
       ELSE /\ iter' = iter + 1
            /\ CASE NextToken.type = "Comma" ->
                      SetTop([Top EXCEPT !.comma_after_value = TRUE, !.at = "next"])
                 [] NextToken.type = "CloseCurlyBracket" -> Return(VObject(Top.obj))
                 [] OTHER ->
                      ParseFail(JsonParseError("ExpectedCommaOrEndOfObject", NextToken, <<>>))
    /\ UNCHANGED <<lexvars, tokens>>

\* parse_array, lines 173-184, with parse_value(Some(token), iter).
ArrayNext ==
    /\ pc = "parse_array" /\ Top.at = "next"
    /\ IF ~HasNext
       THEN iter' = iter /\ ParseFail(JsonParseError("ExpectedEndOfArray", NoToken, <<>>))
       ELSE /\ iter' = iter + 1
            /\ IF NextToken.type = "CloseSquareBracket"
               THEN IF Top.comma_after_value
                    THEN ParseFail(JsonParseError("TrailingComma", NoToken, <<>>))
                    ELSE Return(VArray(Top.arr))
               ELSE Value(NextToken)
    /\ UNCHANGED <<lexvars, tokens>>

\* parse_array looking at the token after a value without consuming a
\* comma, which the next step then reads again.
ArraySepPeek ==
    /\ pc = "parse_array" /\ Top.at = "sep"
    /\ IF ~HasNext
       THEN iter' = iter
            /\ ParseFail(JsonParseError("ExpectedCommaOrEndOfArray", NoToken, <<>>))
       ELSE CASE NextToken.type = "Comma" ->
                   /\ iter' = iter
                   /\ SetTop([Top EXCEPT !.comma_after_value = TRUE, !.at = "next"])
              [] NextToken.type = "CloseSquareBracket" ->
                   iter' = iter + 1 /\ Return(VArray(Top.arr))
              [] OTHER ->
                   /\ iter' = iter + 1
                   /\ ParseFail(JsonParseError("ExpectedCommaOrEndOfArray", NextToken, <<>>))
    /\ UNCHANGED <<lexvars, tokens>>

\* parse_array, lines 186-205 and 208-209.
ArraySep ==
    /\ pc = "parse_array" /\ Top.at = "sep"
    /\ IF ~HasNext
       THEN iter' = iter
            /\ ParseFail(JsonParseError("ExpectedCommaOrEndOfArray", NoToken, <<>>))
       ELSE /\ iter' = iter + 1
            /\ CASE NextToken.type = "Comma" ->
                      SetTop([Top EXCEPT !.comma_after_value = TRUE, !.at = "next"])
                 [] NextToken.type = "CloseSquareBracket" -> Return(VArray(Top.arr))
                 [] OTHER ->
                      ParseFail(JsonParseError("ExpectedCommaOrEndOfArray", NextToken, <<>>))
    /\ UNCHANGED <<lexvars, tokens>>

parse_object == ObjectNext \/ ObjectColon \/ ObjectValue \/ ObjectSep

parse_array == ArrayNext \/ ArraySep

(***************************************************************************)
(* The explored inputs.  Texts go through parse_json (utils.rs): lexer,    *)
(* then parser on the lexer's tokens.  Token vectors are handed to         *)
(* parser() directly, as the tests of parser.rs do.                        *)
(***************************************************************************)
Optional(S) == {<<>>} \cup {<<x>> : x \in S}

Prefixes(s) == {SubSeq(s, 1, k) : k \in 0..Len(s)}

InsertAt(s, k, x) == SubSeq(s, 1, k) \o <<x>> \o SubSeq(s, k + 1, Len(s))

\* Every text of up to MaxLen characters over a small alphabet.
ShortChars == {"[", "]", "}", ",", ":", Quote, Backslash, " ", "\r", "1", "-", "a"}

ShortTexts == SeqsUpTo(ShortChars, MaxLen)

\* A run of number characters, alone or in an array, followed by nothing or
\* by one more character, and possibly a further one.  The runs are all
\* those of up to MaxRun characters over four number characters, and the
\* one of the parser's tests.
RunChars == {"-", ".", "1", "2"}

\* The parser tests' ill-formed number.
TestNumber == <<"4", "-", ".", "5">>

NumberRuns == (SeqsUpTo(RunChars, MaxRun) \ {<<>>}) \cup {TestNumber}

FollowChars == {",", "}", "]", " ", "\n", "\t", "\r", ":", "a", Quote, "[", "{"}

NumberTexts ==
    {pre \o run \o follow \o more :
        pre \in Optional({"["}), run \in NumberRuns,
        follow \in Optional(FollowChars), more \in Optional({"1"})}

\* The three literals with any of their letters but the first replaced,
\* cut short or followed by one more character.
Literals == {<<"t", "r", "u", "e">>, <<"f", "a", "l", "s", "e">>, <<"n", "u", "l", "l">>}

OddChars == {Quote, ",", "]", " ", "a"}

Spellings(w) ==
    {[i \in 1..Len(w) |-> IF i = 1 \/ f[i] = "" THEN w[i] ELSE f[i]] :
        f \in [1..Len(w) -> OddChars \cup {""}]}

LiteralTexts ==
    UNION {UNION {Prefixes(s) \ {<<>>} : s \in Spellings(w)} : w \in Literals}
    \cup {pre \o s \o follow :
            pre \in Optional({"["}),
            s \in UNION {Spellings(w) : w \in Literals},
            follow \in Optional({"a", "o", "]", "e", Quote})}

\* The lexer tests' document.
TestText ==
    <<"[", "{", Quote, "m", "o", "n", "e", "y", Quote, ":", " ",
      "n", "u", "l", "l", ",", " ", Quote, "a", "g", "e", Quote, ":", " ",
      "2", "0", "}", ",", " ", "t", "r", "u", "e", ",", " ",
      "f", "a", "l", "s", "e", "]">>

\* Brackets, a string and a literal with blanks, newlines, tabs, carriage
\* returns and a capital letter between them; the lexer tests' "Null".
BlankChars == {"[", "]", Quote, "n", " ", "\n", "\t", "\r", "N"}

BlankTexts == SeqsUpTo(BlankChars, MaxLen) \cup {<<"N", "u", "l", "l">>}

RawInputs ==
    ShortTexts \cup NumberTexts \cup LiteralTexts \cup BlankTexts \cup {TestText}

TString(text) == JsonToken("String", text)

TNumber(text) == JsonToken("Number", text)

TBoolean(text) == JsonToken("Boolean", text)

TNull(text) == JsonToken("Null", text)

OpenCurlyBracket == Punct("OpenCurlyBracket")

CloseCurlyBracket == Punct("CloseCurlyBracket")

OpenSquareBracket == Punct("OpenSquareBracket")

CloseSquareBracket == Punct("CloseSquareBracket")

Colon == Punct("Colon")

Comma == Punct("Comma")

\* Every token vector of up to MaxTokens tokens over a small vocabulary.
ShortVocabulary ==
    {OpenCurlyBracket, CloseCurlyBracket, OpenSquareBracket, CloseSquareBracket,
     Colon, Comma, TString(<<"a">>), TNumber(<<"1">>), TNumber(<<"-">>),
     TBoolean(<<"t", "r", "u", "e">>), TNull(<<"n", "u", "l">>)}

ShortTokens == SeqsUpTo(ShortVocabulary, MaxTokens)

\* One scalar token as the only element of an array or the only value of
\* an object.
LiteralWords ==
    Literals \cup {<<"t", "r", "u", "a">>, <<"f", "a", "l", "s", "o">>,
                   <<"n", "u", "l", "o">>, <<"T", "r", "u", "e">>,
                   <<"t", "r", "u", "e", "a">>, <<"t", "r", "u">>, <<>>}

ScalarTokens ==
    {TBoolean(w) : w \in LiteralWords} \cup {TNull(w) : w \in LiteralWords}
    \cup {TNumber(run) : run \in NumberRuns}
    \cup {TString(<<>>), TString(<<"t", "r", "u", "e">>)}

ScalarDocs ==
    {<<OpenSquareBracket, x, CloseSquareBracket>> : x \in ScalarTokens}
    \cup {<<OpenCurlyBracket, TString(<<"a">>), Colon, x, CloseCurlyBracket>> :
            x \in ScalarTokens}

\* Well-formed documents: a root array or object of up to MaxItems items,
\* each a scalar or a small container, the keys drawn from two names.
Items ==
    {<<TNumber(<<"1">>)>>,
     <<OpenSquareBracket, CloseSquareBracket>>,
     <<OpenCurlyBracket, CloseCurlyBracket>>,
     <<OpenSquareBracket, TNull(<<"n", "u", "l", "l">>), Comma, OpenCurlyBracket,
       CloseCurlyBracket, CloseSquareBracket>>,
     <<OpenCurlyBracket, TString(<<"b">>), Colon, TNumber(<<"2">>), Comma,
       TString(<<"b">>), Colon, OpenSquareBracket, CloseSquareBracket,
       CloseCurlyBracket>>}

Keys == {<<"a">>, <<"b">>}

RECURSIVE Joined(_)
Joined(parts) ==
    IF parts = <<>> THEN <<>>
    ELSE IF Len(parts) = 1 THEN parts[1]
    ELSE parts[1] \o <<Comma>> \o Joined(Tail(parts))

ArrayDocs ==
    {<<OpenSquareBracket>> \o Joined(items) \o <<CloseSquareBracket>> :
        items \in SeqsUpTo(Items, MaxItems)}

Entries == {<<TString(k), Colon>> \o v : k \in Keys, v \in Items}

ObjectDocs ==
    {<<OpenCurlyBracket>> \o Joined(entries) \o <<CloseCurlyBracket>> :
        entries \in SeqsUpTo(Entries, MaxItems)}

Docs == ArrayDocs \cup ObjectDocs

\* A well-formed document followed by one more token.
ExtendedDocs ==
    {d \o <<t>> : d \in Docs, t \in {CloseCurlyBracket, OpenSquareBracket}}

\* A well-formed document with one comma put in front of one of its
\* closing tokens.
Closers == {CloseSquareBracket, CloseCurlyBracket}

CommaDocs ==
    UNION {{InsertAt(d, k - 1, Comma) : k \in {j \in 1..Len(d) : d[j] \in Closers}} :
             d \in Docs}

\* The parser tests' document.
TestTokens ==
    <<OpenSquareBracket, OpenCurlyBracket, TString(<<"m", "o", "n", "e", "y">>), Colon,
      TNull(<<"n", "u", "l", "l">>), Comma, TString(<<"a", "g", "e">>), Colon,
      TNumber(<<"2", "0">>), CloseCurlyBracket, Comma,
      TBoolean(<<"t", "r", "u", "e">>), Comma,
      TBoolean(<<"f", "a", "l", "s", "e">>), CloseSquareBracket>>

\* The well-formed documents cut off after any of their tokens.
TruncatedDocs == UNION {Prefixes(d) : d \in Docs}

TokenInputs ==
    ShortTokens \cup ScalarDocs \cup Docs \cup ExtendedDocs \cup CommaDocs
    \cup TruncatedDocs \cup {TestTokens}

(***************************************************************************)
(* The state machine.                                                      *)
(***************************************************************************)
Init ==
    /\ chars = 0
    /\ vec = <<>>
    /\ lresult = NotReturned
    /\ iter = 0
    /\ stack = <<>>
    /\ presult = NotReturned
    /\ \/ pc = "lexer" /\ raw \in RawInputs /\ tokens = <<>>
       \/ pc = "parser" /\ raw = <<>> /\ tokens \in TokenInputs

Next == lexer \/ parser \/ parse_object \/ parse_array

Spec == Init /\ [][Next]_vars

(***************************************************************************)
(* Claims.                                                                 *)
(***************************************************************************)
LexerReturned == lresult.tag # "None"

ParserReturned == presult.tag # "None"

\* C1: whenever parser(tokens) returns a value, every token has been
\* consumed: no token is left after the one that closes the root.
C1_SuccessConsumesAllTokens == presult.tag = "Ok" => iter = Len(tokens)

\* The characters from the next one to the end of the input are all
\* number characters.
RunReachesEnd == \A j \in chars + 1..Len(raw) : is_number_char(raw[j])

\* C2 as stated: a number run that reaches the end of the input makes the
\* lexer fail, so a successful lexer never leaves a Number as the last
\* token.
C2_NumberAtEndOfInputFails ==
    lresult.tag = "Ok" => ~(vec # <<>> /\ Last(vec).type = "Number")

\* C2 amended: a number run that reaches the end of the input is pushed as
\* the last Number token, with the text of the run, and the lexer then
\* returns Ok with the tokens it has collected.
C2_NumberAtEndOfInputIsLastToken ==
    [][/\ (AtChar /\ is_number_char(cur_c) /\ RunReachesEnd) =>
            /\ vec' = Append(vec, TNumber(SubSeq(raw, chars + 1, Len(raw))))
            /\ chars' = Len(raw)
            /\ pc' = "lexer"
            /\ lresult' = NotReturned
       /\ (pc = "lexer" /\ chars = Len(raw)) => lresult' = LexOk(vec)]_vars

C2_Witness ==
    /\ raw = <<"[", "1", "2">>
    /\ lresult = LexOk(<<OpenSquareBracket, TNumber(<<"1", "2">>)>>)

\* The position of the first character after `chars` that is no number
\* character, 0 when there is none.
FirstNonNumber ==
    LET js == {j \in chars + 1..Len(raw) : ~is_number_char(raw[j])} IN
    IF js = {} THEN 0 ELSE CHOOSE j \in js : \A k \in js : j <= k

\* C3: a number run followed by a first non-number character x is pushed
\* as Number(run) and exactly one token for x when x is `,`, `}` or `]`,
\* the lexer going on right after x; for any other x the lexer fails with
\* InvalidToken(x).
C3_NumberRunOutcome ==
    [][(AtChar /\ is_number_char(cur_c) /\ FirstNonNumber # 0) =>
         LET j == FirstNonNumber
             x == raw[j]
         IN  IF x \in {",", "}", "]"}
             THEN /\ vec' = vec \o <<TNumber(SubSeq(raw, chars + 1, j - 1)),
                                     StructuralToken(x)>>
                  /\ chars' = j
                  /\ pc' = "lexer"
                  /\ lresult' = NotReturned
             ELSE /\ lresult' = LexErr(JsonTokenError("InvalidToken", x))
                  /\ pc' = "done"]_vars

C3_Witness ==
    /\ raw = <<"[", "1", "2", "}", "1">>
    /\ chars = 4
    /\ vec = <<OpenSquareBracket, TNumber(<<"1", "2">>), CloseCurlyBracket>>

\* C4: parser() returns a value only when the first token is
\* OpenCurlyBracket or OpenSquareBracket, and the value is then an Object
\* or an Array; no token at all is NoTokens, and any other first token is
\* ExpectedObjectOrArrayAsRoot(first token) whatever follows it.
C4_RootIsObjectOrArray ==
    ParserReturned =>
        /\ tokens = <<>> => presult = ParseErr(JsonParseError("NoTokens", NoToken, <<>>))
        /\ (tokens # <<>> /\ tokens[1].type \notin {"OpenCurlyBracket", "OpenSquareBracket"})
             => presult = ParseErr(JsonParseError("ExpectedObjectOrArrayAsRoot",
                                                  tokens[1], <<>>))
        /\ presult.tag = "Ok" =>
             /\ tokens # <<>>
             /\ tokens[1].type \in {"OpenCurlyBracket", "OpenSquareBracket"}
             /\ presult.value.type \in {"Object", "Array"}

C4_Witness ==
    /\ tokens = <<TString(<<"a">>), OpenSquareBracket, CloseSquareBracket>>
    /\ presult = ParseErr(JsonParseError("ExpectedObjectOrArrayAsRoot",
                                         TString(<<"a">>), <<>>))

TrailingComma == ParseErr(JsonParseError("TrailingComma", NoToken, <<>>))

\* The innermost container is about to read its own closing token and the
\* token read just before it was a Comma.
ReadsOwnCloserAfterComma ==
    /\ pc \in {"parse_object", "parse_array"}
    /\ HasNext
    /\ NextToken = (IF pc = "parse_object" THEN CloseCurlyBracket ELSE CloseSquareBracket)
    /\ iter >= 1
    /\ tokens[iter] = Comma

One == VNumber([neg |-> FALSE, mant |-> 1, exp |-> 0])

\* C5: at any depth TrailingComma is reported exactly when the container
\* being parsed reads its own closing token directly after a Comma; a
\* closing token read after the opening token or after a value never gives
\* it, and `[1,[]]` and `{"a":1,"b":{}}` parse: the comma flag is local to
\* each container.
C5_TrailingCommaExactly ==
    [][/\ (presult' = TrailingComma) <=> ReadsOwnCloserAfterComma
       /\ (ParserReturned'
           /\ tokens = <<OpenSquareBracket, TNumber(<<"1">>), Comma,
                         OpenSquareBracket, CloseSquareBracket, CloseSquareBracket>>)
            => presult' = ParseOk(VArray(<<One, VArray(<<>>)>>))
       /\ (ParserReturned'
           /\ tokens = <<OpenCurlyBracket, TString(<<"a">>), Colon, TNumber(<<"1">>), Comma,
                         TString(<<"b">>), Colon, OpenCurlyBracket, CloseCurlyBracket,
                         CloseCurlyBracket>>)
            => presult' = ParseOk(VObject([k \in {<<"a">>, <<"b">>} |->
                                 IF k = <<"a">> THEN One ELSE VObject(EmptyMap)]))]_vars

C5_Witness ==
    /\ tokens = <<OpenSquareBracket,
                  OpenSquareBracket, TNull(<<"n", "u", "l", "l">>), Comma,
                  OpenCurlyBracket, CloseCurlyBracket, Comma, CloseSquareBracket,
                  CloseSquareBracket>>
    /\ iter = 8
    /\ presult = TrailingComma

\* C6: at a dispatch position a leading `t`, `f` or `n` makes the lexer
\* take that character and the next 3, 4 or 3 characters (or all that are
\* left), whatever they are, push one Boolean or Null token with exactly
\* that text and go on right after them, never failing in that step; so
\* `truea` fails with InvalidToken('a') and `falseo` with
\* InvalidToken('o').
C6_LiteralCapture ==
    [][/\ (AtChar /\ cur_c \in {"t", "f", "n"}) =>
            LET k == IF cur_c = "f" THEN 5 ELSE 4
                stop == IF chars + k <= Len(raw) THEN chars + k ELSE Len(raw)
            IN  /\ vec' = Append(vec, JsonToken(IF cur_c = "n" THEN "Null" ELSE "Boolean",
                                                SubSeq(raw, chars + 1, stop)))
                /\ chars' = stop
                /\ pc' = "lexer"
                /\ lresult' = NotReturned
       /\ (LexerReturned' /\ raw = <<"t", "r", "u", "e", "a">>)
            => lresult' = LexErr(JsonTokenError("InvalidToken", "a"))
       /\ (LexerReturned' /\ raw = <<"f", "a", "l", "s", "e", "o">>)
            => lresult' = LexErr(JsonTokenError("InvalidToken", "o"))]_vars

C6_Witness ==
    /\ raw = <<"[", "f", Quote, ",", "]", " ", "]">>
    /\ chars = 6
    /\ vec = <<OpenSquareBracket, TBoolean(<<"f", Quote, ",", "]", " ">>)>>

\* What the claim says a Boolean or Null token is worth as a value.
LiteralOutcome(token) ==
    IF token.type = "Boolean"
    THEN IF token.text = <<"t", "r", "u", "e">> THEN ParseOk(VBoolean(TRUE))
         ELSE IF token.text = <<"f", "a", "l", "s", "e">> THEN ParseOk(VBoolean(FALSE))
         ELSE ParseErr(JsonParseError("InvalidBooleanValue", NoToken, token.text))
    ELSE IF token.text = <<"n", "u", "l", "l">> THEN ParseOk(VNull)
         ELSE ParseErr(JsonParseError("InvalidNullValue", NoToken, token.text))

\* What parser() returns when `outcome` is that of the only element of a
\* root array.
InArray(outcome) ==
    IF outcome.tag = "Ok" THEN ParseOk(VArray(<<outcome.value>>)) ELSE outcome

\* The same for the only value, under key "a", of a root object.
InObject(outcome) ==
    IF outcome.tag = "Ok"
    THEN ParseOk(VObject([k \in {<<"a">>} |-> outcome.value]))
    ELSE outcome

\* C7: a Boolean token is Boolean(true) iff its text is exactly "true",
\* Boolean(false) iff exactly "false", and InvalidBooleanValue(text)
\* otherwise; a Null token is Null iff its text is exactly "null" and
\* InvalidNullValue(text) otherwise; the error carries the text unchanged
\* and its kind follows the token's variant, not its text.
C7_LiteralValidation ==
    ParserReturned =>
        /\ (Len(tokens) = 3 /\ tokens[1] = OpenSquareBracket
            /\ tokens[2].type \in {"Boolean", "Null"} /\ tokens[3] = CloseSquareBracket)
             => presult = InArray(LiteralOutcome(tokens[2]))
        /\ (Len(tokens) = 5 /\ tokens[1] = OpenCurlyBracket /\ tokens[2] = TString(<<"a">>)
            /\ tokens[3] = Colon /\ tokens[4].type \in {"Boolean", "Null"}
            /\ tokens[5] = CloseCurlyBracket)
             => presult = InObject(LiteralOutcome(tokens[4]))
        /\ (presult.tag = "Err"
            /\ presult.error.kind \in {"InvalidBooleanValue", "InvalidNullValue"})
             => /\ iter >= 1
                /\ tokens[iter].type =
                     (IF presult.error.kind = "InvalidBooleanValue" THEN "Boolean" ELSE "Null")
                /\ presult.error.text = tokens[iter].text
                /\ LiteralOutcome(tokens[iter]).tag = "Err"

C7_Witness ==
    /\ tokens = <<OpenSquareBracket, TBoolean(<<"n", "u", "l", "l">>), CloseSquareBracket>>
    /\ presult = ParseErr(JsonParseError("InvalidBooleanValue", NoToken,
                                         <<"n", "u", "l", "l">>))

\* The claim's well-formed decimal number: `-` in the first position only,
\* at most one `.`, and at least one digit.
WellFormedNumber(text) ==
    /\ \A i \in 2..Len(text) : text[i] # "-"
    /\ Cardinality({i \in 1..Len(text) : text[i] = "."}) <= 1
    /\ \E i \in 1..Len(text) : text[i] \in Digits

IsNumberRun(text) ==
    text # <<>> /\ \A i \in 1..Len(text) : is_number_char(text[i])

\* C8: number format is checked by the parser, not the lexer: every run
\* of number characters in an array and followed by `,`, `}` or `]` is lexed
\* as a Number token with that text; the parser then fails with
\* InvalidNumberValue(text) when the text is no well-formed decimal number
\* and takes it as a Number value when it is.
C8_NumberValidationInParser ==
    LET n == Len(raw)
        run == SubSeq(raw, 2, n - 1)
    IN  (n >= 3 /\ raw[1] = "[" /\ raw[n] \in {",", "}", "]"} /\ IsNumberRun(run)) =>
            /\ LexerReturned =>
                 lresult = LexOk(<<OpenSquareBracket, TNumber(run), StructuralToken(raw[n])>>)
            /\ ParserReturned =>
                 IF ~WellFormedNumber(run)
                 THEN presult = ParseErr(JsonParseError("InvalidNumberValue", NoToken, run))
                 ELSE IF raw[n] = "]"
                 THEN /\ presult.tag = "Ok"
                      /\ presult.value.type = "Array"
                      /\ Len(presult.value.items) = 1
                      /\ presult.value.items[1].type = "Number"
                 ELSE /\ presult.tag = "Err"
                      /\ presult.error.kind # "InvalidNumberValue"

C8_Witness ==
    /\ raw = <<"[", "4", "-", ".", "5", "]">>
    /\ lresult = LexOk(<<OpenSquareBracket, TNumber(TestNumber), CloseSquareBracket>>)
    /\ presult = ParseErr(JsonParseError("InvalidNumberValue", NoToken, TestNumber))

\* The position of the first quote after the one at chars + 1, 0 when
\* there is none.
ClosingQuote ==
    LET js == {j \in chars + 2..Len(raw) : raw[j] = Quote} IN
    IF js = {} THEN 0 ELSE CHOOSE j \in js : \A k \in js : j <= k

\* C9: a `"` at a dispatch position starts a string that ends at the first
\* following `"`; the String token's text is what lies strictly between the
\* two, copied as it is (a backslash protects nothing), so no String token
\* holds a quote; without a closing quote the lexer fails with
\* ExpectedEndOfString and hands no tokens on.
C9_StringUpToFirstQuote ==
    [][/\ (AtChar /\ cur_c = Quote) =>
            IF ClosingQuote # 0
            THEN /\ vec' = Append(vec, TString(SubSeq(raw, chars + 2, ClosingQuote - 1)))
                 /\ chars' = ClosingQuote
                 /\ pc' = "lexer"
                 /\ lresult' = NotReturned
            ELSE /\ lresult' = LexErr(JsonTokenError("ExpectedEndOfString", ""))
                 /\ pc' = "done"
                 /\ tokens' = <<>>
       /\ \A i \in 1..Len(vec') :
            vec'[i].type = "String" =>
                \A j \in 1..Len(vec'[i].text) : vec'[i].text[j] # Quote]_vars

C9_Witness ==
    /\ raw = <<Quote, Backslash, Quote>>
    /\ lresult = LexOk(<<TString(<<Backslash>>)>>)

\* The nesting depth of token i: the containers opened and not closed
\* before it.
Depth(i) ==
    Cardinality({j \in 1..i - 1 : tokens[j] \in {OpenCurlyBracket, OpenSquareBracket}})
    - Cardinality({j \in 1..i - 1 : tokens[j] \in Closers})

\* The members of the container opened at s lie one level below it, up
\* to the first closing token of that level.
Inside(s, i) ==
    /\ i > s
    /\ Depth(i) = Depth(s) + 1
    /\ \A j \in s + 1..i : ~(tokens[j] \in Closers /\ Depth(j) = Depth(s) + 1)

\* The positions of the keys of the object opened at s.
KeyPositions(s) ==
    {i \in s + 1..Len(tokens) - 1 :
        Inside(s, i) /\ tokens[i].type = "String" /\ tokens[i + 1].type = "Colon"}

\* The positions where the elements of the array opened at s start.
ElementPositions(s) ==
    {i \in s + 1..Len(tokens) :
        Inside(s, i) /\ (i = s + 1 \/ (tokens[i - 1] = Comma /\ Inside(s, i - 1)))}

Nth(S, n) == CHOOSE x \in S : Cardinality({y \in S : y < x}) = n - 1

Greatest(S) == CHOOSE x \in S : \A y \in S : y <= x

IsContainerStart(token) == token.type \in {"OpenCurlyBracket", "OpenSquareBracket"}

\* Every object of value v, parsed from the tokens at p on, has one entry
\* per distinct key, holding the value parsed for the last occurrence of
\* the key.
RECURSIVE ObjectsLastWins(_, _)
ObjectsLastWins(v, p) ==
    CASE tokens[p].type = "OpenCurlyBracket" ->
           /\ v.type = "Object"
           /\ DOMAIN v.map = {tokens[i].text : i \in KeyPositions(p)}
           /\ \A k \in DOMAIN v.map :
                LET q == Greatest({i \in KeyPositions(p) : tokens[i].text = k}) + 2 IN
                IF IsContainerStart(tokens[q])
                THEN ObjectsLastWins(v.map[k], q)
                ELSE ParseOk(v.map[k]) = parse_value(tokens[q])
      [] tokens[p].type = "OpenSquareBracket" ->
           /\ v.type = "Array"
           /\ \A n \in 1..Len(v.items) :
                n <= Cardinality(ElementPositions(p)) =>
                    LET q == Nth(ElementPositions(p), n) IN
                    IsContainerStart(tokens[q]) => ObjectsLastWins(v.items[n], q)
      [] OTHER -> FALSE

\* C10: every successfully parsed object has exactly one entry per distinct
\* key among its key tokens, each key mapped to the value parsed for its
\* last occurrence; a repeated key is never an error.
C10_DuplicateKeyLastWins ==
    ParserReturned =>
        /\ presult.tag = "Ok" => ObjectsLastWins(presult.value, 1)
        /\ tokens \in Docs => presult.tag = "Ok"

C10_Witness ==
    /\ tokens = <<OpenCurlyBracket, TString(<<"a">>), Colon, TNumber(<<"1">>), Comma,
                  TString(<<"a">>), Colon, OpenSquareBracket, CloseSquareBracket,
                  CloseCurlyBracket>>
    /\ presult = ParseOk(VObject([k \in {<<"a">>} |-> VArray(<<>>)]))

\* Every array of value v, parsed from the tokens at p on, holds one value
\* per element, in the order of the elements; an element that is a
\* container is one value, parsed from its opening token on.
RECURSIVE ArraysInOrder(_, _)
ArraysInOrder(v, p) ==
    CASE tokens[p].type = "OpenSquareBracket" ->
           /\ v.type = "Array"
           /\ Len(v.items) = Cardinality(ElementPositions(p))
           /\ \A n \in 1..Len(v.items) :
                LET q == Nth(ElementPositions(p), n) IN
                IF IsContainerStart(tokens[q])
                THEN ArraysInOrder(v.items[n], q)
                ELSE ParseOk(v.items[n]) = parse_value(tokens[q])
      [] tokens[p].type = "OpenCurlyBracket" ->
           /\ v.type = "Object"
           /\ \A k \in DOMAIN v.map :
                LET ps == {i \in KeyPositions(p) : tokens[i].text = k} IN
                (ps # {} /\ IsContainerStart(tokens[Greatest(ps) + 2]))
                    => ArraysInOrder(v.map[k], Greatest(ps) + 2)
      [] OTHER -> FALSE

Twenty == VNumber([neg |-> FALSE, mant |-> 2, exp |-> 1])

\* C11: every successfully parsed array holds one value per element in the
\* left-to-right order of the elements in the token sequence, a nested
\* container counting as one element after which the enclosing container
\* goes on at the token after the nested closing token; the 15 tokens of
\* `[{"money": null, "age": 20}, true, false]` give the three elements
\* object, true, false.
C11_ArrayOrder ==
    ParserReturned =>
        /\ presult.tag = "Ok" => ArraysInOrder(presult.value, 1)
        /\ tokens = TestTokens =>
             presult = ParseOk(VArray(<<
                 VObject([k \in {<<"m", "o", "n", "e", "y">>, <<"a", "g", "e">>} |->
                            IF k = <<"a", "g", "e">> THEN Twenty ELSE VNull]),
                 VBoolean(TRUE), VBoolean(FALSE)>>))

C11_Witness ==
    /\ tokens = <<OpenSquareBracket,
                  OpenSquareBracket, TNull(<<"n", "u", "l", "l">>), Comma,
                  OpenCurlyBracket, CloseCurlyBracket, CloseSquareBracket,
                  Comma, TNumber(<<"1">>), CloseSquareBracket>>
    /\ presult = ParseOk(VArray(<<VArray(<<VNull, VObject(EmptyMap)>>), One>>))

Blanks == {" ", "\n", "\t"}

\* The characters that start a token or are skipped at a dispatch position.
StartChars ==
    {"{", "}", "[", "]", ":", ",", Quote, "t", "f", "n"} \cup {"-", "."} \cup Digits
    \cup Blanks

\* The tokens of a text made of structural characters only.
StructuralTokens(text) == [i \in 1..Len(text) |-> StructuralToken(text[i])]

\* C12: at a dispatch position a space, newline or tab is consumed and
\* gives no token, so such characters between structural tokens leave the
\* token sequence as it is without them; a carriage return there is not
\* skipped and fails with InvalidToken('\r'), as does every other
\* character that starts no token.
C12_BlanksSkipped ==
    [][/\ (AtChar /\ cur_c \in Blanks) =>
            /\ vec' = vec
            /\ chars' = chars + 1
            /\ pc' = "lexer"
            /\ lresult' = NotReturned
       /\ (AtChar /\ cur_c = "\r") =>
            lresult' = LexErr(JsonTokenError("InvalidToken", "\r")) /\ pc' = "done"
       /\ (AtChar /\ cur_c \notin StartChars) =>
            lresult' = LexErr(JsonTokenError("InvalidToken", cur_c)) /\ pc' = "done"
       /\ (LexerReturned' /\ \A i \in 1..Len(raw) : raw[i] \in StructuralChars \cup Blanks) =>
            lresult' = LexOk(StructuralTokens(SelectSeq(raw, LAMBDA x : x \notin Blanks)))
       /\ (LexerReturned' /\ raw = <<"N", "u", "l", "l">>) =>
            lresult' = LexErr(JsonTokenError("InvalidToken", "N"))]_vars

C12_Witness ==
    /\ raw = <<"[", "\t", "]">>
    /\ chars = 2
    /\ vec = <<OpenSquareBracket>>
    /\ lresult = NotReturned

\* The opening token of the innermost container that the tokens leave
\* unclosed.
InnermostOpen ==
    Greatest({s \in 1..Len(tokens) :
                IsContainerStart(tokens[s]) /\ Depth(s) = Depth(Len(tokens) + 1) - 1})

\* The error for running out of tokens, told from the tokens alone: from
\* the kind of the innermost unclosed container and the last token.
ExhaustedError ==
    LET s == InnermostOpen
        n == Len(tokens)
        of == IF tokens[s] = OpenCurlyBracket THEN "Object" ELSE "Array"
        kind == IF n = s \/ tokens[n] = Comma THEN "ExpectedEndOf" \o of
                ELSE IF /\ of = "Object"
                        /\ tokens[n].type = "String"
                        /\ (n - 1 = s \/ tokens[n - 1] = Comma)
                THEN "ExpectedColonAfterKey"
                ELSE IF tokens[n] = Colon THEN "InvalidValue"
                ELSE "ExpectedCommaOrEndOf" \o of
    IN  JsonParseError(kind, NoToken, <<>>)

\* C13: when the tokens end inside an unclosed container, the whole parse
\* fails with the error of the innermost unclosed container for the
\* position reached: ExpectedEndOfArray / ExpectedEndOfObject directly
\* after the opening token or a separator comma, ExpectedColonAfterKey(None)
\* directly after a key, InvalidValue(None) directly after a colon, and
\* ExpectedCommaOrEndOfArray(None) / ExpectedCommaOrEndOfObject(None)
\* directly after a complete value.
C13_ExhaustedInsideContainer ==
    [][(pc \in {"parse_object", "parse_array"} /\ iter = Len(tokens)) =>
          /\ presult' = ParseErr(ExhaustedError)
          /\ pc' = "done"]_vars

C13_Witness ==
    /\ tokens = <<OpenSquareBracket, OpenCurlyBracket, TString(<<"b">>), Colon,
                  TNumber(<<"2">>), Comma, TString(<<"b">>), Colon>>
    /\ presult = ParseErr(JsonParseError("InvalidValue", NoToken, <<>>))

InParser == pc \in {"parser", "parse_object", "parse_array"}

\* The guard of one of the parser's steps holds; under its guard each
\* step has an outcome for every token and for the end of the tokens.
CanStep ==
    \/ pc = "parser"
    \/ /\ pc = "parse_object"
       /\ stack # <<>>
       /\ Top.fn = "parse_object"
       /\ Top.at \in {"next", "colon", "value", "sep"}
    \/ /\ pc = "parse_array"
       /\ stack # <<>>
       /\ Top.fn = "parse_array"
       /\ Top.at \in {"next", "sep"}

\* C14: parser() terminates on every token sequence with a value or one
\* error: a call that has not returned always has a next step, and every
\* step reads a token or returns, so the steps number at most the tokens
\* plus one.  Every step of parser and of the nested parse_object and
\* parse_array calls leaves the tokens as they are and either reads the
\* one token after the shared cursor, moving the cursor one forward, or
\* reads nothing and returns: the cursor never decreases, no token is read
\* twice, and the reads number at most the length of the sequence.
C14_SingleForwardCursor ==
    /\ [](InParser => CanStep)
    /\ [][InParser =>
            /\ tokens' = tokens
            /\ iter' \in {iter, iter + 1}
            /\ iter' <= Len(tokens)
            /\ iter' = iter => pc' = "done"
            /\ ~ParserReturned
            /\ pc' = "done" <=> presult'.tag \in {"Ok", "Err"}]_vars

C14_Witness ==
    /\ pc = "done"
    /\ tokens = TestTokens
    /\ iter = Len(TestTokens)
    /\ presult.tag = "Ok"

====
